---------------------------- MODULE Spec2Model ----------------------------
(***************************************************************************)
(* Model of the Conjure Blender add-on's command path:                     *)
(*   - ConjureServer (src/conjure/engine/blender_server.py): the socket    *)
(*     server thread, the operation queue and the timer callback that      *)
(*     runs queued operations on Blender's main thread;                    *)
(*   - CommandExecutor (src/conjure/engine/command_executor.py): routing   *)
(*     of a command type to its _cmd_<type> handler;                       *)
(*   - the engine package (src/conjure/engine/__init__.py) and the         *)
(*     connection operators (src/conjure/operators/connection.py): the     *)
(*     global server instance;                                             *)
(*   - SimulationAdapter (src/conjure/adapters/simulation_adapter.py):     *)
(*     UGF export and import, mesh volume, principal axes of inertia.      *)
(* Python dicts are modelled as functions from key names to values, a key  *)
(* being present iff it is in the DOMAIN.                                  *)
(***************************************************************************)
EXTENDS Integers, Sequences, FiniteSets, TLC

VARIABLES
  \* ---- ConjureServer fields (blender_server.py:57-82)
  running,          \* self.running
  socket,           \* self.socket: "None" or "sock"
  client,           \* self.client: 0 (None) or the id of an accepted connection
  thread,           \* self.thread: "None" or "thread"
  operation_queue,  \* self.operation_queue: sequence of (cmd_type, params, request_id)
  result_map,       \* self.result_map: request_id -> result dict
  result_events,    \* self.result_events: request_id -> event id
  timer_registered, \* self._timer_registered
  \* ---- host state the server acts on
  blender_timers,   \* number of registrations of _process_queue in bpy.app.timers
  is_connected,     \* bpy.context.scene.conjure.is_connected
  events_set,       \* ids of the threading.Event objects that are set
  sock_state,       \* the listening socket object: "none", "open", "listening", "closed"
  conn,             \* per connection: "none", "pending", "open", "closed"
  peer_open,        \* per connection: the remote end has not closed yet
  wire,             \* per connection: characters sent by the peer, not yet recv()ed
  outbox,           \* per connection: responses sent to the peer
  \* ---- the server thread (_server_loop / _handle_client and their locals)
  pc,               \* position of the server thread
  accepted,         \* the connection accept() returned, served by _handle_client
  timer_iter,       \* _process_queue: 0 when not running, else the loop iteration
  buffer,           \* _handle_client's buffer
  line,             \* the stripped line being executed
  request,          \* locals of _execute_command/_queue_operation
  response,         \* the response about to be sent
  \* ---- CommandExecutor.execute: the last call
  x_cmd, x_params, x_result, handler_calls,
  \* ---- history
  last_op,          \* the last call of start() or execute(), and the `running` it saw
  sent_total,       \* send() calls made by peers so far
  rx,               \* per connection: the characters recv() has returned so far
  handled,          \* the lines handed to _execute_command, in order, with their connection
  exec_log,         \* every executor invocation made for a socket command
  stop_called,      \* stop() has been called
  \* ---- the engine package (engine/__init__.py) and the connection operators
  _server,          \* the global _server: "None" or "server"
  engine_call,      \* the last of start_server()/stop_server() to be called
  last_call,        \* the last top-level call: its name, whether it invoked
                    \* start(), and what it returned
  n_calls,          \* top-level calls made so far
  \* ---- SimulationAdapter (adapters/simulation_adapter.py) and its scene
  objects,          \* bpy.data.objects: name -> mesh object
  ugf,              \* the dict export_geometry_ugf returned (empty before the call)
  bm,               \* the BMesh handed to _calculate_mesh_volume
  volume,           \* what _calculate_mesh_volume returned (empty before the call)
  moments,          \* the dict handed to _calculate_principal_axes
  jacobi,           \* its locals I and V and the number of rotations made
  principal_axes    \* what _calculate_principal_axes returned (empty before the return)

server_fields == <<running, socket, client, thread, operation_queue,
                   result_map, result_events, timer_registered>>
host_vars     == <<blender_timers, is_connected, events_set, sock_state,
                   conn, peer_open, wire, outbox>>
thread_vars   == <<pc, accepted, timer_iter, buffer, line, request, response>>
exec_vars     == <<x_cmd, x_params, x_result, handler_calls>>
hist_vars     == <<last_op, sent_total, rx, handled, exec_log, stop_called>>
engine_vars   == <<_server, engine_call, last_call, n_calls>>
adapter_vars  == <<objects, ugf, bm, volume, moments, jacobi, principal_axes>>
other_vars    == <<engine_vars, adapter_vars>>
vars == <<server_fields, host_vars, thread_vars, exec_vars, hist_vars, other_vars>>

-----------------------------------------------------------------------------
(* Python dict helpers *)

None == "None"

Has(d, k) == k \in DOMAIN d

Get(d, k, default) == IF k \in DOMAIN d THEN d[k] ELSE default

DictSet(d, k, v) == [x \in DOMAIN d \cup {k} |-> IF x = k THEN v ELSE d[x]]

DictDel(d, k) == [x \in DOMAIN d \ {k} |-> d[x]]

EmptyDict == [x \in {} |-> None]

-----------------------------------------------------------------------------
(* CommandExecutor *)

\* dir(self) of a CommandExecutor, sorted as dir() returns it; every name is
\* split as <<name[:5], name[5:]>>.
DirNames ==
    <<
       <<"__cla", "ss__">>, <<"__dic", "t__">>, <<"__ini", "t__">>,
       <<"_bool", "ean_op">>, <<"_cmd_", "add_array">>,
       <<"_cmd_", "add_bevel">>, <<"_cmd_", "add_camera">>,
       <<"_cmd_", "add_cloth">>, <<"_cmd_", "add_collision">>,
       <<"_cmd_", "add_fluid_domain">>, <<"_cmd_", "add_fluid_effector">>,
       <<"_cmd_", "add_fluid_flow">>, <<"_cmd_", "add_group_input">>,
       <<"_cmd_", "add_light">>, <<"_cmd_", "add_mirror">>,
       <<"_cmd_", "add_modifier">>, <<"_cmd_", "add_node">>,
       <<"_cmd_", "add_rigid_body">>, <<"_cmd_", "add_soft_body">>,
       <<"_cmd_", "add_solidify">>, <<"_cmd_", "add_subdivision">>,
       <<"_cmd_", "apply_modifier">>, <<"_cmd_", "apply_node_group">>,
       <<"_cmd_", "apply_transforms">>,
       <<"_cmd_", "assign_engineering_material">>,
       <<"_cmd_", "assign_material">>, <<"_cmd_", "bake_fluid_async">>,
       <<"_cmd_", "bake_physics">>, <<"_cmd_", "boolean_difference">>,
       <<"_cmd_", "boolean_intersect">>, <<"_cmd_", "boolean_union">>,
       <<"_cmd_", "calculate_dynamic_properties">>,
       <<"_cmd_", "capture_viewport">>,
       <<"_cmd_", "clear_engineering_material">>, <<"_cmd_", "clear_scene">>,
       <<"_cmd_", "configure_rigid_body_world">>,
       <<"_cmd_", "connect_nodes">>, <<"_cmd_", "copy_object">>,
       <<"_cmd_", "create_armature">>, <<"_cmd_", "create_bezier">>,
       <<"_cmd_", "create_cone">>, <<"_cmd_", "create_cube">>,
       <<"_cmd_", "create_cylinder">>, <<"_cmd_", "create_material">>,
       <<"_cmd_", "create_node_group">>, <<"_cmd_", "create_nurbs">>,
       <<"_cmd_", "create_path">>, <<"_cmd_", "create_plane">>,
       <<"_cmd_", "create_procedural_grid">>, <<"_cmd_", "create_sphere">>,
       <<"_cmd_", "create_studio_lighting">>, <<"_cmd_", "create_torus">>,
       <<"_cmd_", "delete_object">>, <<"_cmd_", "evaluate">>,
       <<"_cmd_", "export_fbx">>, <<"_cmd_", "export_geometry_ugf">>,
       <<"_cmd_", "export_gltf">>, <<"_cmd_", "export_obj">>,
       <<"_cmd_", "export_stl">>, <<"_cmd_", "frame_selected">>,
       <<"_cmd_", "free_fluid_cache">>, <<"_cmd_", "get_bake_status">>,
       <<"_cmd_", "get_engineering_material">>,
       <<"_cmd_", "get_node_group_info">>, <<"_cmd_", "get_object_details">>,
       <<"_cmd_", "get_object_engineering_material">>,
       <<"_cmd_", "get_simulation_capabilities">>, <<"_cmd_", "get_state">>,
       <<"_cmd_", "health_check">>, <<"_cmd_", "import_fbx">>,
       <<"_cmd_", "import_geometry_ugf">>, <<"_cmd_", "import_gltf">>,
       <<"_cmd_", "import_obj">>, <<"_cmd_", "import_stl">>,
       <<"_cmd_", "insert_keyframe">>, <<"_cmd_", "join_objects">>,
       <<"_cmd_", "list_engineering_materials">>,
       <<"_cmd_", "list_objects">>, <<"_cmd_", "measure_distance">>,
       <<"_cmd_", "move_object">>, <<"_cmd_", "new_collection">>,
       <<"_cmd_", "parent_object">>, <<"_cmd_", "play_animation">>,
       <<"_cmd_", "refresh_materials_cache">>, <<"_cmd_", "remove_cloth">>,
       <<"_cmd_", "remove_modifier">>, <<"_cmd_", "remove_rigid_body">>,
       <<"_cmd_", "render_image">>, <<"_cmd_", "rotate_object">>,
       <<"_cmd_", "run_physics_simulation">>, <<"_cmd_", "run_script">>,
       <<"_cmd_", "scale_object">>, <<"_cmd_", "set_frame">>,
       <<"_cmd_", "set_frame_range">>, <<"_cmd_", "set_node_input">>,
       <<"_cmd_", "set_origin">>, <<"_cmd_", "set_render_engine">>,
       <<"_cmd_", "set_render_resolution">>, <<"_cmd_", "set_view">>,
       <<"_cmd_", "set_visibility">>, <<"_cmd_", "validate_geometry">>,
       <<"_hand", "lers">>, <<"_regi", "ster_handlers">>, <<"execu", "te">>,
       <<"mater", "ials_client">>
    >>

\* The command types named under "Supported command types" in the module
\* docstring of blender_server.py.
SupportedCommandTypes ==
    {
       "create_cube", "create_sphere", "create_cylinder", "create_cone",
       "create_torus", "create_bezier", "create_nurbs", "create_path",
       "boolean_union", "boolean_difference", "boolean_intersect",
       "move_object", "rotate_object", "scale_object", "copy_object",
       "delete_object", "add_modifier", "remove_modifier", "apply_modifier",
       "create_node_group", "add_node", "connect_nodes", "create_material",
       "assign_material", "insert_keyframe", "create_armature",
       "add_rigid_body", "add_cloth", "add_fluid", "bake_physics",
       "get_state", "list_objects", "get_object_details", "measure_distance",
       "export_stl", "export_obj", "export_fbx", "export_gltf", "set_view",
       "capture_viewport"
    }

\* Handlers all of whose return statements return status "success".
NoErrorReturn ==
    {
       "create_cube", "create_sphere", "create_cylinder", "create_cone",
       "create_torus", "create_plane", "create_bezier", "create_nurbs",
       "create_path", "get_state", "list_objects", "health_check",
       "bake_physics", "create_material", "create_armature",
       "configure_rigid_body_world", "get_simulation_capabilities",
       "create_node_group", "create_procedural_grid", "set_frame",
       "set_frame_range", "play_animation", "render_image",
       "set_render_resolution", "create_studio_lighting", "add_camera",
       "clear_scene"
    }

AvailableLimit == 20

StrLenLimit == 200

\* One value of a params dict: its Python type and len(str(v)).
ParamValues ==
    { [type |-> "str",   strlen |-> 4],
      [type |-> "bytes", strlen |-> 4],
      [type |-> "list",  strlen |-> StrLenLimit - 1],
      [type |-> "list",  strlen |-> StrLenLimit] }

\* The params dicts the model feeds to execute.
ParamDicts ==
    {EmptyDict} \cup { [k \in {"name"} |-> v] : v \in ParamValues }
                \cup { [k \in {"name", "data"} |-> IF k = "name" THEN [type |-> "str", strlen |-> 4] ELSE v]
                        : v \in ParamValues }

\* _register_handlers: self._handlers as the sequence of its (key, method)
\* items in insertion order.
register_handlers ==
    LET IsCmd(a) == a[1] = "_cmd_"
        sel == SelectSeq(DirNames, IsCmd)
    IN  [i \in 1..Len(sel) |-> [key |-> sel[i][2], method |-> sel[i]]]

HandlerKeys == { register_handlers[i].key : i \in 1..Len(register_handlers) }

\* self._handlers.get(cmd_type)
handlers_get(cmd_type) ==
    IF cmd_type \in HandlerKeys
    THEN (CHOOSE i \in 1..Len(register_handlers) :
              register_handlers[i].key = cmd_type) 
    ELSE 0

\* Mutant of available_commands: the [:20] slice forgotten.
available_commands_unsliced ==
    [i \in 1..Len(register_handlers) |-> register_handlers[i].key]

\* list(self._handlers.keys())[:20]
available_commands ==
    LET n == IF Len(register_handlers) < AvailableLimit
             THEN Len(register_handlers) ELSE AvailableLimit
    IN  [i \in 1..n |-> register_handlers[i].key]

\* The filter applied to params before they are echoed in an error.
safe_params(params) ==
    LET keep == { k \in DOMAIN params :
                    /\ params[k].type \notin {"bytes", "bytearray"}
                    /\ (params[k].type \notin {"list", "dict"}
                          \/ params[k].strlen < StrLenLimit) }
    IN  [k \in keep |-> params[k]]

\* The dicts the handler _cmd_<cmd_type> can return.
HandlerReturns(cmd_type) ==
    LET ok  == [status |-> "success", data |-> cmd_type]
        err == [status |-> "error", error |-> "handler error"]
    IN  IF cmd_type = "bake_fluid_async"
        THEN {err, [status |-> "started", message |-> "Fluid bake started in background."]}
        ELSE IF cmd_type = "run_physics_simulation"
        THEN {err} \cup { [status |-> s, simulation_type |-> "t", results |-> "results",
                           warnings |-> "warnings"] : s \in {"success", "error"} }
        ELSE IF cmd_type \in NoErrorReturn THEN {ok}
        ELSE {ok, err}

\* What a handler call can do: return one of its dicts, or raise.
HandlerOutcomes(cmd_type) ==
    { [kind |-> "return", value |-> d] : d \in HandlerReturns(cmd_type) }
      \cup { [kind |-> "raise", value |-> EmptyDict] }

\* CommandExecutor.execute(cmd_type, params), the handler behaving as `outcome`.
\* ret is the returned dict, calls the handler methods invoked, in order.
execute(cmd_type, params, outcome) ==
    LET h == handlers_get(cmd_type) IN
    IF h = 0
    THEN [ret   |-> [status |-> "error",
                     operation |-> cmd_type,
                     error |-> "Unknown command: " \o cmd_type,
                     available_commands |-> available_commands],
          calls |-> <<>>]
    ELSE IF outcome.kind = "raise"
    THEN [ret   |-> [status |-> "error",
                     operation |-> cmd_type,
                     error |-> "Exception: message",
                     params |-> safe_params(params)],
          calls |-> <<register_handlers[h].method>>]
    ELSE LET result == outcome.value
             r1 == DictSet(result, "operation", cmd_type)
             r2 == IF Has(r1, "params") THEN r1
                   ELSE DictSet(r1, "params", safe_params(params))
         IN  [ret   |-> IF Get(result, "status", None) = "error" THEN r2 ELSE result,
              calls |-> <<register_handlers[h].method>>]

-----------------------------------------------------------------------------
(* Bounds of the model *)

MaxConns == 1     \* connections remote peers open

MaxSent == 1      \* send() calls remote peers make in total

Conns == 1..MaxConns

-----------------------------------------------------------------------------
(* The byte stream: characters, lines and JSON texts *)

NL == "\n"

SP == " "

\* The characters of the stream.  "a" and "b" each stand for the text of one
\* JSON object, "x" for text that is not JSON.
Chars == {"a", "b", "x", SP, NL}

\* What one send() of a peer carries: part of a line, one line, or two lines.
Segments ==
    { <<"a">>, <<SP>>, <<NL>>, <<"a", NL>>, <<"b", NL>>, <<"x", NL>>,
      <<"x", NL, "a", NL>> }

\* json.loads of a one-character text, for the characters that are JSON.
JsonObject(ch) ==
    IF ch = "a"
    THEN [type |-> "create_cube", request_id |-> "r1",
          params |-> [k \in {"name"} |-> [type |-> "str", strlen |-> 4]]]
    ELSE [type |-> "add_fluid"]

\* json.loads(command_str): a text parses iff it is exactly one JSON value;
\* two values in a row, or anything containing "x", raise JSONDecodeError.
json_loads(s) ==
    IF Len(s) = 1 /\ s[1] \in {"a", "b"}
    THEN [ok |-> TRUE,  value |-> JsonObject(s[1])]
    ELSE [ok |-> FALSE, value |-> EmptyDict]

\* "\n" in buffer
HasNewline(buf) == \E i \in 1..Len(buf) : buf[i] = NL

\* Mutant of split_line: splits at the last newline (rsplit).
split_line_last(buf) ==
    LET i == CHOOSE j \in 1..Len(buf) :
                 buf[j] = NL /\ \A k \in (j + 1)..Len(buf) : buf[k] # NL
    IN  <<SubSeq(buf, 1, i - 1), SubSeq(buf, i + 1, Len(buf))>>

\* buffer.split("\n", 1): <<line, rest>>
split_line(buf) ==
    LET i == CHOOSE j \in 1..Len(buf) :
                 buf[j] = NL /\ \A k \in 1..(j - 1) : buf[k] # NL
    IN  <<SubSeq(buf, 1, i - 1), SubSeq(buf, i + 1, Len(buf))>>

\* line.strip()
RECURSIVE strip(_)
strip(s) ==
    IF s = <<>> THEN s
    ELSE IF Head(s) = SP THEN strip(Tail(s))
    ELSE IF s[Len(s)] = SP THEN strip(SubSeq(s, 1, Len(s) - 1))
    ELSE s

RecvSize == 8192

OpsPerTimerCall == 10

InvalidJSON == [status |-> "error", error |-> "Invalid JSON: ..."]

TimedOut == [status |-> "error", error |-> "Operation timed out"]

NoResult == [status |-> "error", error |-> "No result"]

NoRequest == [cmd_type |-> "", params |-> EmptyDict, request_id |-> "", event |-> 0]

NoCall == [name |-> "none", started |-> FALSE, ret |-> None]

\* engine/__init__.py:16, `_server = None`, before any call
InitEngine ==
    /\ _server = None
    /\ engine_call = "none"
    /\ last_call = NoCall
    /\ n_calls = 0

\* No scene object and no adapter call yet
InitAdapter ==
    /\ objects = EmptyDict
    /\ ugf = EmptyDict
    /\ bm = EmptyDict
    /\ volume = EmptyDict
    /\ moments = EmptyDict
    /\ jacobi = EmptyDict
    /\ principal_axes = EmptyDict

InitOther == InitEngine /\ InitAdapter

-----------------------------------------------------------------------------
(* Initial state: a constructed ConjureServer (__init__), nothing started *)

InitServer ==
    /\ running = FALSE
    /\ socket = None
    /\ client = 0
    /\ thread = None
    /\ operation_queue = <<>>
    /\ result_map = EmptyDict
    /\ result_events = EmptyDict
    /\ timer_registered = FALSE
    /\ blender_timers = 0
    /\ is_connected = FALSE
    /\ events_set = {}
    /\ sock_state = "none"
    /\ conn = [c \in Conns |-> "none"]
    /\ peer_open = [c \in Conns |-> TRUE]
    /\ wire = [c \in Conns |-> <<>>]
    /\ outbox = [c \in Conns |-> <<>>]
    /\ pc = "unstarted"
    /\ accepted = 0
    /\ timer_iter = 0
    /\ buffer = <<>>
    /\ line = [id |-> 0, text |-> <<>>]
    /\ request = NoRequest
    /\ response = EmptyDict
    /\ x_cmd = "" /\ x_params = EmptyDict /\ x_result = EmptyDict
    /\ handler_calls = <<>>
    /\ last_op = <<"none", FALSE>>
    /\ sent_total = 0
    /\ rx = [c \in Conns |-> <<>>]
    /\ handled = <<>>
    /\ exec_log = <<>>
    /\ stop_called = FALSE

Init == InitServer /\ InitOther

-----------------------------------------------------------------------------
(* The main thread: start(), stop() and the timer callback _process_queue *)

\* Mutant of start: the `if self.running: return` guard is missing.
start_unguarded ==
    /\ running' = TRUE
    /\ IF ~timer_registered
       THEN /\ blender_timers' = blender_timers + 1
            /\ timer_registered' = TRUE
       ELSE UNCHANGED <<blender_timers, timer_registered>>
    /\ thread' = "thread"
    /\ pc' = "socket"

\* ConjureServer.start
start ==
    IF running
    THEN UNCHANGED <<running, timer_registered, blender_timers, thread, pc>>
    ELSE /\ running' = TRUE
         /\ IF ~timer_registered
            THEN /\ blender_timers' = blender_timers + 1
                 /\ timer_registered' = TRUE
            ELSE UNCHANGED <<blender_timers, timer_registered>>
         /\ thread' = "thread"
         /\ pc' = "socket"

\* A call of start().  The engine calls it on a freshly constructed
\* instance and drops the instance after stop() (engine/__init__.py:38-48);
\* further calls are taken only while the server is running.
Start ==
    /\ timer_iter = 0
    /\ running \/ thread = None
    /\ last_op' = <<"start", running>>
    /\ start
    /\ UNCHANGED <<socket, client, operation_queue, result_map, result_events>>
    /\ UNCHANGED <<is_connected, events_set, sock_state, conn, peer_open, wire, outbox>>
    /\ UNCHANGED <<accepted, timer_iter, buffer, line, request, response>>
    /\ UNCHANGED <<exec_vars, other_vars, sent_total, rx, handled, exec_log, stop_called>>

\* ConjureServer.stop
stop ==
    /\ running' = FALSE
    /\ blender_timers' = IF timer_registered /\ blender_timers > 0
                         THEN blender_timers - 1 ELSE blender_timers
    /\ timer_registered' = FALSE
    /\ conn' = IF client # 0 THEN [conn EXCEPT ![client] = "closed"] ELSE conn
    /\ client' = 0
    /\ sock_state' = IF socket # None THEN "closed" ELSE sock_state
    /\ socket' = None

\* A call of stop(); the engine stops only an instance it has started
\* (engine/__init__.py:38-47).
Stop ==
    /\ timer_iter = 0
    /\ thread # None
    /\ stop_called' = TRUE
    /\ stop
    /\ UNCHANGED <<thread, operation_queue, result_map, result_events>>
    /\ UNCHANGED <<is_connected, events_set, peer_open, wire, outbox>>
    /\ UNCHANGED <<thread_vars, exec_vars, other_vars, last_op, sent_total, rx, handled, exec_log>>

\* _process_queue is entered by Blender's timer: `if not self.running:
\* return None` unregisters the timer, otherwise the loop starts.  A call
\* that finds the queue empty returns at once and leaves the state as it is.
process_queue_enter ==
    /\ timer_iter = 0
    /\ blender_timers > 0
    /\ IF ~running
       THEN blender_timers' = blender_timers - 1 /\ UNCHANGED timer_iter
       ELSE /\ timer_iter' = IF operation_queue = <<>> THEN 0 ELSE 1
            /\ UNCHANGED blender_timers
    /\ UNCHANGED <<server_fields, is_connected, events_set, sock_state, conn,
                   peer_open, wire, outbox>>
    /\ UNCHANGED <<pc, accepted, buffer, line, request, response>>
    /\ UNCHANGED <<exec_vars, other_vars, hist_vars>>

\* One iteration of `for _ in range(10)`: get_nowait, execute, store the
\* result and set the event of the request if it is still registered.
process_queue_op ==
    /\ timer_iter >= 1
    /\ timer_iter <= OpsPerTimerCall
    /\ operation_queue # <<>>
    /\ LET op == Head(operation_queue) IN
       \E outcome \in HandlerOutcomes(op.cmd_type) :
          LET r == execute(op.cmd_type, op.params, outcome) IN
          /\ operation_queue' = Tail(operation_queue)
          /\ result_map' = DictSet(result_map, op.request_id, r.ret)
          /\ events_set' = IF Has(result_events, op.request_id)
                           THEN events_set \cup {result_events[op.request_id]}
                           ELSE events_set
          /\ exec_log' = Append(exec_log,
                 [line |-> op.line, cmd_type |-> op.cmd_type,
                  by |-> "_process_queue", calls |-> r.calls])
    /\ timer_iter' = timer_iter + 1
    /\ UNCHANGED <<running, socket, client, thread, result_events, timer_registered>>
    /\ UNCHANGED <<blender_timers, is_connected, sock_state, conn, peer_open, wire, outbox>>
    /\ UNCHANGED <<pc, accepted, buffer, line, request, response>>
    /\ UNCHANGED <<exec_vars, other_vars, last_op, sent_total, rx, handled, stop_called>>

\* The loop ends on queue.Empty or after 10 operations: return 0.05.
process_queue_return ==
    /\ timer_iter >= 1
    /\ timer_iter > OpsPerTimerCall \/ operation_queue = <<>>
    /\ timer_iter' = 0
    /\ UNCHANGED <<server_fields, host_vars, exec_vars, other_vars, hist_vars>>
    /\ UNCHANGED <<pc, accepted, buffer, line, request, response>>

-----------------------------------------------------------------------------
(* The server thread: _server_loop *)

main_unchanged == UNCHANGED <<timer_iter, blender_timers, timer_registered,
                              thread, last_op, stop_called, exec_vars, other_vars,
                              sent_total, peer_open, wire, rx>>

\* self.socket = socket.socket(...)
server_loop_socket ==
    /\ pc = "socket"
    /\ socket' = "sock"
    /\ sock_state' = "open"
    /\ pc' = "setsockopt"
    /\ main_unchanged
    /\ UNCHANGED <<running, client, operation_queue, result_map, result_events>>
    /\ UNCHANGED <<is_connected, events_set, conn, outbox, handled, exec_log>>
    /\ UNCHANGED <<accepted, buffer, line, request, response>>

\* self.socket.setsockopt(...), outside the try: on None (AttributeError)
\* or on a closed socket (OSError) the thread dies.
server_loop_setsockopt ==
    /\ pc = "setsockopt"
    /\ pc' = IF socket = None \/ sock_state = "closed" THEN "done" ELSE "bind"
    /\ main_unchanged
    /\ UNCHANGED <<server_fields, is_connected, events_set, sock_state, conn,
                   outbox, handled, exec_log>>
    /\ UNCHANGED <<accepted, buffer, line, request, response>>

\* bind, listen, settimeout inside `try ... except OSError`.  bind_ok is
\* whether the port is free.
server_loop_bind(bind_ok) ==
    /\ pc = "bind"
    /\ IF socket = None
       THEN \* AttributeError is not an OSError: the thread dies
            /\ pc' = "done"
            /\ UNCHANGED <<running, sock_state>>
       ELSE IF sock_state = "closed" \/ ~bind_ok
       THEN /\ running' = FALSE
            /\ pc' = "done"
            /\ UNCHANGED sock_state
       ELSE /\ sock_state' = "listening"
            /\ pc' = "while_running"
            /\ UNCHANGED running
    /\ main_unchanged
    /\ UNCHANGED <<socket, client, operation_queue, result_map, result_events>>
    /\ UNCHANGED <<is_connected, events_set, conn, outbox, handled, exec_log>>
    /\ UNCHANGED <<accepted, buffer, line, request, response>>

\* while self.running:
server_loop_while ==
    /\ pc = "while_running"
    /\ pc' = IF running THEN "accept" ELSE "done"
    /\ main_unchanged
    /\ UNCHANGED <<server_fields, is_connected, events_set, sock_state, conn,
                   outbox, handled, exec_log>>
    /\ UNCHANGED <<accepted, buffer, line, request, response>>

\* self.socket.accept() raising: socket.timeout (continue), or an error on a
\* None or closed socket (caught by `except Exception`).
server_loop_accept_fail ==
    /\ pc = "accept"
    /\ pc' = "while_running"
    /\ main_unchanged
    /\ UNCHANGED <<server_fields, is_connected, events_set, sock_state, conn,
                   outbox, handled, exec_log>>
    /\ UNCHANGED <<accepted, buffer, line, request, response>>

\* self.socket.accept() returning the socket of a pending connection
server_loop_accept(c) ==
    /\ pc = "accept"
    /\ socket # None /\ sock_state = "listening"
    /\ conn[c] = "pending"
    /\ conn' = [conn EXCEPT ![c] = "open"]
    /\ accepted' = c
    /\ pc' = "assign_client"
    /\ main_unchanged
    /\ UNCHANGED <<server_fields, is_connected, events_set, sock_state,
                   outbox, handled, exec_log>>
    /\ UNCHANGED <<buffer, line, request, response>>

\* self.client, addr = <accepted>; self._update_connection_status(True);
\* _handle_client begins with buffer = ""
server_loop_assign ==
    /\ pc = "assign_client"
    /\ client' = accepted
    /\ is_connected' = TRUE
    /\ buffer' = <<>>
    /\ pc' = "while_client"
    /\ main_unchanged
    /\ UNCHANGED <<running, socket, operation_queue, result_map, result_events>>
    /\ UNCHANGED <<events_set, sock_state, conn, outbox, handled, exec_log>>
    /\ UNCHANGED <<accepted, line, request, response>>

-----------------------------------------------------------------------------
(* The server thread: _handle_client, _execute_command, _queue_operation *)

Min(a, b) == IF a < b THEN a ELSE b

\* while self.running and self.client:
handle_client_while ==
    /\ pc = "while_client"
    /\ pc' = IF running /\ client # 0 THEN "recv" ELSE "if_client"
    /\ main_unchanged
    /\ UNCHANGED <<server_fields, is_connected, events_set, sock_state, conn,
                   outbox, handled, exec_log>>
    /\ UNCHANGED <<accepted, buffer, line, request, response>>

\* data = self.client.recv(8192) raising (client None or closed), or
\* returning "" because the peer closed: break
handle_client_recv_break ==
    /\ pc = "recv"
    /\ \/ client = 0
       \/ client # 0 /\ conn[client] = "closed"
       \/ client # 0 /\ wire[client] = <<>> /\ ~peer_open[client]
    /\ pc' = "if_client"
    /\ main_unchanged
    /\ UNCHANGED <<server_fields, is_connected, events_set, sock_state, conn,
                   outbox, handled, exec_log>>
    /\ UNCHANGED <<accepted, buffer, line, request, response>>

\* data = self.client.recv(8192) returning n characters; buffer += data
handle_client_recv ==
    /\ pc = "recv"
    /\ client # 0 /\ conn[client] = "open"
    /\ \E n \in 1..Min(Len(wire[client]), RecvSize) :
          /\ buffer' = buffer \o SubSeq(wire[client], 1, n)
          /\ wire' = [wire EXCEPT ![client] = SubSeq(@, n + 1, Len(@))]
          /\ rx' = [rx EXCEPT ![client] = @ \o SubSeq(wire[client], 1, n)]
    /\ pc' = "while_newline"
    /\ UNCHANGED <<timer_iter, blender_timers, timer_registered, thread,
                   last_op, stop_called, exec_vars, other_vars, sent_total, peer_open>>
    /\ UNCHANGED <<running, socket, client, operation_queue, result_map, result_events>>
    /\ UNCHANGED <<is_connected, events_set, sock_state, conn, outbox, handled, exec_log>>
    /\ UNCHANGED <<accepted, line, request, response>>

\* while "\n" in buffer: line, buffer = buffer.split("\n", 1);
\* if line.strip(): ... _execute_command(line.strip())
handle_client_split ==
    /\ pc = "while_newline"
    /\ IF HasNewline(buffer)
       THEN LET parts == split_line(buffer)
                text  == strip(parts[1])
            IN  /\ buffer' = parts[2]
                /\ IF text # <<>>
                   THEN /\ handled' = Append(handled, [conn |-> accepted, text |-> text])
                        /\ line' = [id |-> Len(handled) + 1, text |-> text]
                        /\ pc' = "execute_command"
                   ELSE UNCHANGED <<handled, line, pc>>
       ELSE /\ pc' = "while_client"
            /\ UNCHANGED <<buffer, handled, line>>
    /\ main_unchanged
    /\ UNCHANGED <<server_fields, is_connected, events_set, sock_state, conn,
                   outbox, exec_log>>
    /\ UNCHANGED <<accepted, request, response>>

\* Mutant of json_decode_error: the error ends the client loop.
json_decode_error_break ==
    /\ response' = InvalidJSON
    /\ pc' = "if_client"
    /\ UNCHANGED <<request, result_events, operation_queue, result_map,
                   events_set, exec_log>>

\* _execute_command: `except json.JSONDecodeError` answers the line without
\* queueing anything.
json_decode_error ==
    /\ response' = InvalidJSON
    /\ pc' = "send"
    /\ UNCHANGED <<request, result_events, operation_queue, result_map,
                   events_set, exec_log>>

\* Mutant of queue_operation: the server thread calls the executor itself.
queue_operation_inline(req) ==
    /\ \E outcome \in HandlerOutcomes(req.cmd_type) :
          LET r == execute(req.cmd_type, req.params, outcome) IN
          /\ response' = r.ret
          /\ exec_log' = Append(exec_log,
                 [line |-> req.event, cmd_type |-> req.cmd_type,
                  by |-> "_queue_operation", calls |-> r.calls])
    /\ pc' = "send"
    /\ UNCHANGED <<request, result_events, operation_queue, result_map, events_set>>

\* _queue_operation up to the wait: result_events[request_id] = event;
\* operation_queue.put((cmd_type, params, request_id)).  The queue entry
\* also carries the id of the line it came from (history only).
queue_operation(req) ==
    /\ request' = req
    /\ result_events' = DictSet(result_events, req.request_id, req.event)
    /\ operation_queue' = Append(operation_queue,
           [cmd_type |-> req.cmd_type, params |-> req.params,
            request_id |-> req.request_id, line |-> req.event])
    /\ pc' = "wait"
    /\ UNCHANGED <<response, result_map, events_set, exec_log>>

\* _execute_command(line.strip()): json.loads, cmd.get(...), _queue_operation
execute_command ==
    /\ pc = "execute_command"
    /\ LET parsed == json_loads(line.text) IN
       IF ~parsed.ok
       THEN json_decode_error
       ELSE LET cmd == parsed.value IN
            queue_operation(
                [cmd_type   |-> Get(cmd, "type", ""),
                 params     |-> Get(cmd, "params", EmptyDict),
                 request_id |-> Get(cmd, "request_id", "uuid" \o ToString(line.id)),
                 event      |-> line.id])
    /\ main_unchanged
    /\ UNCHANGED <<running, socket, client>>
    /\ UNCHANGED <<is_connected, sock_state, conn, outbox, handled>>
    /\ UNCHANGED <<accepted, buffer, line>>

\* event.wait(timeout=60.0) returned True: pop the result, delete the event
queue_operation_result ==
    /\ pc = "wait"
    /\ request.event \in events_set
    /\ LET rid    == request.request_id
           result == Get(result_map, rid, EmptyDict)
       IN  /\ result_map' = DictDel(result_map, rid)
           /\ result_events' = DictDel(result_events, rid)
           /\ response' = IF result # EmptyDict THEN result ELSE NoResult
    /\ events_set' = events_set \ {request.event}
    /\ request' = NoRequest
    /\ pc' = "send"
    /\ main_unchanged
    /\ UNCHANGED <<running, socket, client, operation_queue>>
    /\ UNCHANGED <<is_connected, sock_state, conn, outbox, handled, exec_log>>
    /\ UNCHANGED <<accepted, buffer, line>>

\* Mutant of queue_operation_timeout: the event is not deleted.
queue_operation_timeout_keep ==
    /\ pc = "wait"
    /\ request.event \notin events_set
    /\ response' = TimedOut
    /\ request' = NoRequest
    /\ pc' = "send"
    /\ main_unchanged
    /\ UNCHANGED <<running, socket, client, operation_queue, result_map, result_events>>
    /\ UNCHANGED <<is_connected, events_set, sock_state, conn, outbox, handled, exec_log>>
    /\ UNCHANGED <<accepted, buffer, line>>

\* event.wait(timeout=60.0) returned False after 60 seconds
queue_operation_timeout ==
    /\ pc = "wait"
    /\ request.event \notin events_set
    /\ result_events' = DictDel(result_events, request.request_id)
    /\ response' = TimedOut
    /\ request' = NoRequest
    /\ pc' = "send"
    /\ main_unchanged
    /\ UNCHANGED <<running, socket, client, operation_queue, result_map>>
    /\ UNCHANGED <<is_connected, events_set, sock_state, conn, outbox, handled, exec_log>>
    /\ UNCHANGED <<accepted, buffer, line>>

\* self.client.send(json.dumps(response) + "\n")
handle_client_send ==
    /\ pc = "send"
    /\ client # 0 /\ conn[client] = "open"
    /\ outbox' = [outbox EXCEPT ![client] =
                     Append(@, [line |-> line.id, text |-> line.text, body |-> response])]
    /\ pc' = "while_newline"
    /\ main_unchanged
    /\ UNCHANGED <<server_fields, is_connected, events_set, sock_state, conn,
                   handled, exec_log>>
    /\ UNCHANGED <<accepted, buffer, line, request, response>>

\* send raising: client None or closed, or the peer is gone: break
handle_client_send_fail ==
    /\ pc = "send"
    /\ \/ client = 0
       \/ client # 0 /\ conn[client] = "closed"
       \/ client # 0 /\ ~peer_open[client]
    /\ pc' = "if_client"
    /\ main_unchanged
    /\ UNCHANGED <<server_fields, is_connected, events_set, sock_state, conn,
                   outbox, handled, exec_log>>
    /\ UNCHANGED <<accepted, buffer, line, request, response>>

\* if self.client:
handle_client_if_client ==
    /\ pc = "if_client"
    /\ pc' = IF client # 0 THEN "close_client" ELSE "while_running"
    /\ main_unchanged
    /\ UNCHANGED <<server_fields, is_connected, events_set, sock_state, conn,
                   outbox, handled, exec_log>>
    /\ UNCHANGED <<accepted, buffer, line, request, response>>

\* self.client.close(); self.client = None;
\* self._update_connection_status(False).  If stop() has set self.client
\* to None meanwhile, close() raises and _server_loop catches it.
handle_client_close ==
    /\ pc = "close_client"
    /\ IF client # 0
       THEN /\ conn' = [conn EXCEPT ![client] = "closed"]
            /\ client' = 0
            /\ is_connected' = FALSE
       ELSE UNCHANGED <<conn, client, is_connected>>
    /\ pc' = "while_running"
    /\ main_unchanged
    /\ UNCHANGED <<running, socket, operation_queue, result_map, result_events>>
    /\ UNCHANGED <<events_set, sock_state, outbox, handled, exec_log>>
    /\ UNCHANGED <<accepted, buffer, line, request, response>>

-----------------------------------------------------------------------------
(* Remote peers *)

peer_connect(c) ==
    /\ conn[c] = "none"
    /\ sock_state = "listening"
    /\ conn' = [conn EXCEPT ![c] = "pending"]
    /\ UNCHANGED <<server_fields, thread_vars, exec_vars, other_vars, hist_vars>>
    /\ UNCHANGED <<blender_timers, is_connected, events_set, sock_state,
                   peer_open, wire, outbox>>

peer_send(c, seg) ==
    /\ conn[c] \in {"pending", "open"}
    /\ peer_open[c]
    /\ sent_total < MaxSent
    /\ wire' = [wire EXCEPT ![c] = @ \o seg]
    /\ sent_total' = sent_total + 1
    /\ UNCHANGED <<server_fields, thread_vars, exec_vars, other_vars>>
    /\ UNCHANGED <<last_op, rx, handled, exec_log, stop_called>>
    /\ UNCHANGED <<blender_timers, is_connected, events_set, sock_state,
                   conn, peer_open, outbox>>

peer_close(c) ==
    /\ conn[c] \in {"pending", "open"}
    /\ peer_open[c]
    /\ peer_open' = [peer_open EXCEPT ![c] = FALSE]
    /\ UNCHANGED <<server_fields, thread_vars, exec_vars, other_vars, hist_vars>>
    /\ UNCHANGED <<blender_timers, is_connected, events_set, sock_state,
                   conn, wire, outbox>>

-----------------------------------------------------------------------------
(* The specification of the server *)

Next ==
    \/ Start
    \/ Stop
    \/ process_queue_enter
    \/ process_queue_op
    \/ process_queue_return
    \/ server_loop_socket
    \/ server_loop_setsockopt
    \/ \E ok \in BOOLEAN : server_loop_bind(ok)
    \/ server_loop_while
    \/ server_loop_accept_fail
    \/ \E c \in Conns : server_loop_accept(c)
    \/ server_loop_assign
    \/ handle_client_while
    \/ handle_client_recv_break
    \/ handle_client_recv
    \/ handle_client_split
    \/ execute_command
    \/ queue_operation_result
    \/ queue_operation_timeout
    \/ handle_client_send
    \/ handle_client_send_fail
    \/ handle_client_if_client
    \/ handle_client_close
    \/ \E c \in Conns : peer_connect(c)
    \/ \E c \in Conns, seg \in Segments : peer_send(c, seg)
    \/ \E c \in Conns : peer_close(c)

Spec == Init /\ [][Next]_vars

-----------------------------------------------------------------------------
(* The specification of CommandExecutor.execute on its own: the inputs are   *)
(* drawn in the initial state and one action applies execute to them, as the *)
(* operators do on the main thread (operators/primitives.py:47-56).          *)

CmdTypes == HandlerKeys \cup SupportedCommandTypes \cup {"", "no_such_command"}

InitExec ==
    /\ running = FALSE
    /\ socket = None
    /\ client = 0
    /\ thread = None
    /\ operation_queue = <<>>
    /\ result_map = EmptyDict
    /\ result_events = EmptyDict
    /\ timer_registered = FALSE
    /\ blender_timers = 0
    /\ is_connected = FALSE
    /\ events_set = {}
    /\ sock_state = "none"
    /\ conn = [c \in Conns |-> "none"]
    /\ peer_open = [c \in Conns |-> TRUE]
    /\ wire = [c \in Conns |-> <<>>]
    /\ outbox = [c \in Conns |-> <<>>]
    /\ pc = "unstarted"
    /\ accepted = 0
    /\ timer_iter = 0
    /\ buffer = <<>>
    /\ line = [id |-> 0, text |-> <<>>]
    /\ request = NoRequest
    /\ response = EmptyDict
    /\ x_cmd \in CmdTypes
    /\ x_params \in ParamDicts
    /\ x_result = EmptyDict
    /\ handler_calls = <<>>
    /\ last_op = <<"none", FALSE>>
    /\ sent_total = 0
    /\ rx = [c \in Conns |-> <<>>]
    /\ handled = <<>>
    /\ exec_log = <<>>
    /\ stop_called = FALSE
    /\ InitOther

\* result = server.executor.execute(x_cmd, x_params)
executor_execute ==
    /\ last_op = <<"none", FALSE>>
    /\ \E outcome \in HandlerOutcomes(x_cmd) :
          LET r == execute(x_cmd, x_params, outcome) IN
          /\ x_result' = r.ret
          /\ handler_calls' = r.calls
    /\ last_op' = <<"execute", FALSE>>
    /\ UNCHANGED <<x_cmd, x_params>>
    /\ UNCHANGED <<server_fields, host_vars, thread_vars, other_vars>>
    /\ UNCHANGED <<sent_total, rx, handled, exec_log, stop_called>>

NextExec == executor_execute

SpecExec == InitExec /\ [][NextExec]_vars

\* execute has returned
Returned == last_op = <<"execute", FALSE>>

\* A method named _cmd_<cmd_type> exists on the executor
MethodExists(cmd_type) ==
    \E i \in 1..Len(DirNames) : DirNames[i] = <<"_cmd_", cmd_type>>

(* C3: execute invokes exactly the method _cmd_<cmd_type>, once, when it   *)
(* exists; otherwise it invokes no handler and returns status "error",     *)
(* error "Unknown command: <cmd_type>", operation = cmd_type and an         *)
(* available_commands list of at most 20 names.                             *)
C3_Dispatch ==
    Returned =>
        IF MethodExists(x_cmd)
        THEN handler_calls = << <<"_cmd_", x_cmd>> >>
        ELSE /\ handler_calls = <<>>
             /\ x_result.status = "error"
             /\ x_result.error = "Unknown command: " \o x_cmd
             /\ x_result.operation = x_cmd
             /\ Len(x_result.available_commands) <= 20
             /\ \A i \in 1..Len(x_result.available_commands) :
                    MethodExists(x_result.available_commands[i])

C3_Witness ==
    /\ Returned
    /\ x_cmd = "no_such_command"
    /\ Len(x_result.available_commands) = 20

(* C6: for every command type and params dict, the dict execute returns    *)
(* has status "success" or "error".                                         *)
C6_StatusSuccessOrError ==
    Returned => x_result.status \in {"success", "error"}

(* C7: whenever execute returns status "error", the dict has the keys      *)
(* operation, params and error.                                             *)
C7_ErrorKeys ==
    (Returned /\ x_result.status = "error") =>
        {"operation", "params", "error"} \subseteq DOMAIN x_result

(* C8: every command type listed in the blender_server module docstring    *)
(* has a registered handler, so execute never answers "Unknown command"    *)
(* for a listed type.                                                       *)
C8_ListedTypesHandled ==
    (Returned /\ x_cmd \in SupportedCommandTypes) =>
        /\ x_cmd \in HandlerKeys
        /\ Get(x_result, "error", "") # "Unknown command: " \o x_cmd

-----------------------------------------------------------------------------
(* Properties of the server *)

\* event.wait(timeout=60.0) returns within 60 seconds, whichever way.
FairSpec == Spec /\ WF_vars(queue_operation_result \/ queue_operation_timeout)

\* The complete, non-blank lines of a received character stream, stripped.
Trim(s) ==
    LET idx == { i \in 1..Len(s) : s[i] # SP } IN
    IF idx = {} THEN <<>>
    ELSE SubSeq(s, CHOOSE i \in idx : \A j \in idx : i <= j,
                   CHOOSE i \in idx : \A j \in idx : i >= j)

RECURSIVE ExpectedLines(_)
ExpectedLines(s) ==
    IF \A i \in 1..Len(s) : s[i] # NL THEN <<>>
    ELSE LET i == CHOOSE j \in 1..Len(s) :
                      s[j] = NL /\ \A k \in 1..(j - 1) : s[k] # NL
             t == Trim(SubSeq(s, 1, i - 1))
         IN  (IF t = <<>> THEN <<>> ELSE <<t>>)
               \o ExpectedLines(SubSeq(s, i + 1, Len(s)))

C2_ExecutedOnlyInProcessQueue ==
    [][exec_log' # exec_log =>
          /\ timer_iter >= 1
          /\ pc' = pc
          /\ Len(exec_log') = Len(exec_log) + 1
          /\ exec_log'[Len(exec_log')].by = "_process_queue"]_vars

C2_Witness ==
    /\ exec_log # <<>>
    /\ pc = "wait"
    /\ request.event \in events_set

(* C4: a line that is not valid JSON is answered with the Invalid JSON     *)
(* error, nothing is enqueued or executed for it, and after the answer     *)
(* the client loop goes on with the rest of the buffer on the same, still  *)
(* open connection.                                                        *)
C4_InvalidJsonAnswered ==
    [][/\ (pc = "execute_command" /\ pc' # pc /\ ~json_loads(line.text).ok)
            => /\ response' = InvalidJSON
               /\ pc' = "send"
               /\ UNCHANGED <<operation_queue, result_events, result_map,
                              exec_log, conn, client, buffer>>
       /\ (pc = "send" /\ ~json_loads(line.text).ok /\ outbox' # outbox)
            => /\ pc' = "while_newline"
               /\ outbox'[accepted] = Append(outbox[accepted],
                      [line |-> line.id, text |-> line.text, body |-> InvalidJSON])
               /\ UNCHANGED <<conn, client, buffer, operation_queue, exec_log>>
      ]_vars

C4_Witness ==
    \E c \in Conns :
        /\ Len(outbox[c]) = 2
        /\ outbox[c][1].body = InvalidJSON
        /\ outbox[c][2].body.status = "success"
        /\ conn[c] = "open"

(* C5: _queue_operation always returns: a thread waiting in it leaves the  *)
(* wait, with the stored result if the event was set or with the timeout   *)
(* error if not, and on return its request id is no longer in              *)
(* result_events.                                                          *)
C5_QueueOperationReturns ==
    /\ (pc = "wait") ~> (pc # "wait")
    /\ [][(pc = "wait" /\ pc' # "wait") =>
             /\ ~Has(result_events', request.request_id)
             /\ pc' = "send"
             /\ IF request.event \in events_set
                THEN /\ Has(result_map, request.request_id)
                     /\ response' = result_map[request.request_id]
                ELSE response' = TimedOut]_vars

C5_Witness ==
    /\ pc = "send"
    /\ response = TimedOut
    /\ result_events = EmptyDict
    /\ operation_queue # <<>>

(* C9: start() while running is already true changes nothing: no thread is *)
(* started, the timer is not registered again, all server fields keep      *)
(* their values.                                                           *)
C9_StartWhileRunning ==
    [][(last_op' # last_op /\ last_op' = <<"start", TRUE>>) =>
          UNCHANGED <<server_fields, blender_timers, thread_vars, host_vars>>]_vars

C9_Witness ==
    /\ last_op = <<"start", TRUE>>
    /\ running
    /\ thread # None
    /\ blender_timers = 1

(* C10: once stop() has been called and the server thread has run to       *)
(* completion, neither the listening socket nor an accepted client socket  *)
(* is open.                                                                *)
C10_StopClosesSockets ==
    (stop_called /\ pc = "done") =>
        /\ sock_state \notin {"open", "listening"}
        /\ \A c \in Conns : conn[c] # "open"

-----------------------------------------------------------------------------
(* The engine package and the connection operators.  The server variables    *)
(* describe the instance the global _server refers to (the last one          *)
(* constructed); the thread of a dropped instance is no longer followed.     *)

MaxCalls == 4     \* top-level calls of start_server, stop_server and the operators

\* Variables start_server(), stop_server() and the two operators never write.
engine_unchanged ==
    UNCHANGED <<operation_queue, result_map, result_events, is_connected,
                events_set, peer_open, wire, outbox, accepted, timer_iter,
                buffer, line, request, response, exec_vars, hist_vars,
                adapter_vars>>

\* engine.start_server.  _server = ConjureServer(host, port) gives the new
\* instance no socket and no client; a dropped instance has been stopped, so
\* running and _timer_registered are False as in a new one when start() runs.
start_server ==
    /\ engine_call' = "start_server"
    /\ IF _server = None
       THEN /\ _server' = "server"
            /\ socket' = None
            /\ client' = 0
            /\ sock_state' = "none"
            /\ start
       ELSE UNCHANGED <<_server, socket, client, sock_state, running,
                        timer_registered, blender_timers, thread, pc>>
    /\ UNCHANGED conn

\* Mutant of stop_server: the global is not reset.
stop_server_keep ==
    /\ engine_call' = "stop_server"
    /\ IF _server # None
       THEN stop /\ UNCHANGED _server
       ELSE UNCHANGED <<_server, running, blender_timers, timer_registered,
                        conn, client, sock_state, socket>>
    /\ UNCHANGED <<thread, pc>>

\* engine.stop_server
stop_server ==
    /\ engine_call' = "stop_server"
    /\ IF _server # None
       THEN stop /\ _server' = None
       ELSE UNCHANGED <<_server, running, blender_timers, timer_registered,
                        conn, client, sock_state, socket>>
    /\ UNCHANGED <<thread, pc>>

\* A call of start_server() from the main thread (engine.register's timer
\* lambda, or any importer of the package).
call_start_server ==
    /\ n_calls < MaxCalls
    /\ n_calls' = n_calls + 1
    /\ last_call' = [name |-> "start_server", started |-> (_server = None),
                     ret |-> "server"]
    /\ start_server
    /\ engine_unchanged

\* A call of stop_server() from the main thread (engine.unregister).
call_stop_server ==
    /\ n_calls < MaxCalls
    /\ n_calls' = n_calls + 1
    /\ last_call' = [name |-> "stop_server", started |-> FALSE, ret |-> None]
    /\ stop_server
    /\ engine_unchanged

\* CONJURE_OT_connect.execute
connect_execute ==
    /\ n_calls < MaxCalls
    /\ n_calls' = n_calls + 1
    /\ IF _server # None /\ running
       THEN /\ last_call' = [name |-> "connect", started |-> FALSE,
                             ret |-> "CANCELLED"]
            /\ UNCHANGED <<server_fields, host_vars, pc, _server, engine_call>>
       ELSE /\ last_call' = [name |-> "connect", started |-> (_server = None),
                             ret |-> "FINISHED"]
            /\ start_server
    /\ engine_unchanged

\* CONJURE_OT_disconnect.execute
disconnect_execute ==
    /\ n_calls < MaxCalls
    /\ n_calls' = n_calls + 1
    /\ IF _server = None \/ ~running
       THEN /\ last_call' = [name |-> "disconnect", started |-> FALSE,
                             ret |-> "CANCELLED"]
            /\ UNCHANGED <<server_fields, host_vars, pc, _server, engine_call>>
       ELSE /\ last_call' = [name |-> "disconnect", started |-> FALSE,
                             ret |-> "FINISHED"]
            /\ stop_server
    /\ engine_unchanged

NextEngine ==
    \/ call_start_server
    \/ call_stop_server
    \/ connect_execute
    \/ disconnect_execute
    \/ process_queue_enter
    \/ server_loop_socket
    \/ server_loop_setsockopt
    \/ \E ok \in BOOLEAN : server_loop_bind(ok)
    \/ server_loop_while
    \/ server_loop_accept_fail

SpecEngine == Init /\ [][NextEngine]_vars

\* C11: CONJURE_OT_connect.execute returns CANCELLED and leaves the server
\* untouched when an instance exists and is running; in every other case it
\* returns FINISHED, its start() was invoked and running is true afterwards.
C11_ConnectStartsServer ==
    [][ (n_calls' = n_calls + 1 /\ last_call'.name = "connect") =>
          IF _server # None /\ running
          THEN /\ last_call'.ret = "CANCELLED"
               /\ UNCHANGED <<_server, server_fields, host_vars, pc>>
          ELSE /\ last_call'.ret = "FINISHED"
               /\ _server' # None
               /\ last_call'.started
               /\ running' ]_vars

\* C12: get_server() is None exactly when the last of start_server() and
\* stop_server() to be called was stop_server() or none was called yet;
\* start_server() creates and starts an instance only when none exists and
\* otherwise leaves the existing one as it is; stop_server() stops the
\* instance and resets the global.
C12_OneGlobalServer ==
    /\ []((_server = None) <=> (engine_call \in {"none", "stop_server"}))
    /\ [][ /\ (n_calls' = n_calls + 1 /\ engine_call' = "start_server") =>
                IF _server = None
                THEN _server' # None /\ running' /\ thread' # None
                     /\ last_call'.started
                ELSE /\ UNCHANGED <<_server, server_fields, host_vars, pc>>
                     /\ ~last_call'.started
           /\ (n_calls' = n_calls + 1 /\ engine_call' = "stop_server") =>
                /\ _server' = None
                /\ IF _server # None
                   THEN /\ ~running' /\ ~timer_registered'
                        /\ socket' = None /\ client' = 0
                   ELSE UNCHANGED <<server_fields, host_vars, pc>> ]_vars

\* C12 witness: after earlier calls, start_server() found no instance,
\* created one and started it.
C12_Witness ==
    /\ n_calls >= 3
    /\ last_call = [name |-> "start_server", started |-> TRUE, ret |-> "server"]
    /\ _server # None
    /\ running

-----------------------------------------------------------------------------
(* SimulationAdapter: geometry transfer in the UGF format.  Coordinates are  *)
(* integers; an object has no parent and no rotation, so its matrix_world    *)
(* is the scaling by obj.scale followed by the translation by obj.location.  *)

MaxLoc == 1       \* object locations have components in 0..MaxLoc

MaxScale == 2     \* object scales have components in 1..MaxScale

Vec(S) == S \X S \X S

VAdd(a, b) == <<a[1] + b[1], a[2] + b[2], a[3] + b[3]>>

VScale(sc, a) == <<sc[1] * a[1], sc[2] * a[2], sc[3] * a[3]>>

\* obj.matrix_world @ co
matrix_world(obj, co) == VAdd(obj.location, VScale(obj.scale, co))

\* Mesh data: vertex coordinates and faces as lists of 0-based vertex indices.
Meshes ==
    { [co |-> << <<0,0,0>>, <<1,0,0>>, <<0,1,0>> >>,
       faces |-> << <<0,1,2>> >>],
      [co |-> << <<0,0,0>>, <<1,0,0>>, <<0,1,0>>, <<0,0,1>> >>,
       faces |-> << <<0,2,1>>, <<0,1,3>>, <<0,3,2>>, <<1,2,3>> >>],
      [co |-> << <<0,0,0>>, <<1,0,0>>, <<1,1,0>>, <<0,1,0>> >>,
       faces |-> << <<0,1,2,3>> >>] }

\* bmesh.ops.triangulate: a triangle stays, a quad is cut along one of its
\* two diagonals (diag says which).
RECURSIVE triangulate(_, _)
triangulate(faces, diag) ==
    IF faces = <<>> THEN <<>>
    ELSE LET f == Head(faces) IN
         (IF Len(f) = 3 THEN <<f>>
          ELSE IF diag = 0
               THEN << <<f[1], f[2], f[3]>>, <<f[1], f[3], f[4]>> >>
               ELSE << <<f[1], f[2], f[4]>>, <<f[2], f[3], f[4]>> >>)
         \o triangulate(Tail(faces), diag)

ObjectName == "Cube"

\* One mesh object in the scene, nothing exported yet.
InitUGF ==
    /\ InitServer
    /\ InitEngine
    /\ \E mesh \in Meshes, loc \in Vec(0..MaxLoc), sc \in Vec(1..MaxScale) :
          objects = [n \in {ObjectName} |->
                       [co |-> mesh.co, faces |-> mesh.faces,
                        location |-> loc, rotation_euler |-> <<0,0,0>>,
                        scale |-> sc]]
    /\ ugf = EmptyDict
    /\ bm = EmptyDict
    /\ volume = EmptyDict
    /\ moments = EmptyDict
    /\ jacobi = EmptyDict
    /\ principal_axes = EmptyDict

\* SimulationAdapter.export_geometry_ugf(object_name)
export_geometry_ugf(object_name, diag) ==
    LET obj == objects[object_name] IN
    [format |-> "UGF",
     version |-> "1.0",
     object_name |-> object_name,
     vertices |-> [i \in 1..Len(obj.co) |-> matrix_world(obj, obj.co[i])],
     faces |-> triangulate(obj.faces, diag),
     transform |-> [location |-> obj.location,
                    rotation |-> obj.rotation_euler,
                    scale |-> obj.scale]]

\* bpy.data.objects.new(name, mesh): a name already in use gets a suffix.
unique_name(name) == IF Has(objects, name) THEN name \o ".001" ELSE name

\* SimulationAdapter.import_geometry_ugf(ugf_data): the object it creates
import_geometry_ugf(ugf_data) ==
    LET t == ugf_data.transform IN
    [co |-> ugf_data.vertices,
     faces |-> ugf_data.faces,
     location |-> t.location,
     rotation_euler |-> t.rotation,
     scale |-> t.scale]

adapter_unchanged ==
    UNCHANGED <<server_fields, host_vars, thread_vars, exec_vars, hist_vars,
                engine_vars>>

ugf_export ==
    /\ ugf = EmptyDict
    /\ \E diag \in {0, 1} : ugf' = export_geometry_ugf(ObjectName, diag)
    /\ UNCHANGED <<objects, bm, volume, moments, jacobi, principal_axes>>
    /\ adapter_unchanged

ugf_import ==
    /\ ugf # EmptyDict
    /\ ~Has(objects, unique_name(ugf.object_name))
    /\ objects' = DictSet(objects, unique_name(ugf.object_name),
                          import_geometry_ugf(ugf))
    /\ UNCHANGED <<ugf, bm, volume, moments, jacobi, principal_axes>>
    /\ adapter_unchanged

NextUGF == ugf_export \/ ugf_import

SpecUGF == InitUGF /\ [][NextUGF]_vars

\* World-space vertex positions of an object
WorldVerts(obj) == [i \in 1..Len(obj.co) |-> matrix_world(obj, obj.co[i])]

Imported == ObjectName \o ".001"

\* C13: the object import_geometry_ugf creates from the dict
\* export_geometry_ugf produced has the world-space vertex positions and the
\* triangle index lists of the exported object, for every location and scale.
C13_RoundTrip ==
    Has(objects, Imported) =>
        /\ WorldVerts(objects[Imported]) = WorldVerts(objects[ObjectName])
        /\ \E diag \in {0, 1} :
              objects[Imported].faces = triangulate(objects[ObjectName].faces, diag)

-----------------------------------------------------------------------------
(* SimulationAdapter._calculate_mesh_volume.  Python floats are IEEE 754     *)
(* binary64 numbers, rounded to nearest, ties to even.  Every float the      *)
(* function handles is a quotient k/6 of an integer k, rounded, or a sum of  *)
(* such, hence a multiple of 2^-55: a float is modelled as a sign and the    *)
(* magnitude hi*2^48 + mid*2^24 + lo in units of 2^-55.                      *)

MaxOff == 1       \* a mesh's corner nearest to -infinity has coordinates in -MaxOff..MaxOff

MaxSize == 2      \* edge lengths of the meshes are in 1..MaxSize

RECURSIVE Pow2(_)
Pow2(n) == IF n = 0 THEN 1 ELSE 2 * Pow2(n - 1)

Limb == Pow2(24)

\* floor(log2(n)) for n >= 1
RECURSIVE Log2(_)
Log2(n) == IF n < 2 THEN 0 ELSE 1 + Log2(n \div 2)

Abs(k) == IF k < 0 THEN -k ELSE k

FZero == [neg |-> FALSE, hi |-> 0, mid |-> 0, lo |-> 0]

\* Carry from lo to mid to hi
Carry(neg, hi, mid, lo) ==
    LET m1 == mid + (lo \div Limb)
    IN  [neg |-> neg, hi |-> hi + (m1 \div Limb), mid |-> m1 % Limb, lo |-> lo % Limb]

\* Round a magnitude to 53 significant bits, to nearest, ties to even.
\* sixths (0..5) is what a division by 6 left below the unit 2^-55.
RoundNearestEven(neg, hi, mid, lo, sixths) ==
    LET d     == IF hi < 32 THEN 0 ELSE Log2(hi) - 4  \* bits above the 53 kept
        m     == Pow2(d)
        rem   == lo % m
        odd   == ((lo \div m) % 2) = 1
        drop6 == 6 * rem + sixths
        half6 == 3 * m
        up    == drop6 > half6 \/ (drop6 = half6 /\ odd)
    IN  Carry(neg, hi, mid, (lo - rem) + (IF up THEN m ELSE 0))

\* float(k) / 6.0 for an integer k
FDiv6(k) ==
    LET n  == Abs(k)
        a0 == n * 128                  \* n * 2^55 = a0 * 2^48
        qa == a0 \div 6
        r1 == a0 % 6
        qb == (r1 * Limb) \div 6
        r2 == (r1 * Limb) % 6
        qc == (r2 * Limb) \div 6
        r3 == (r2 * Limb) % 6
    IN  IF k = 0 THEN FZero ELSE RoundNearestEven(k < 0, qa, qb, qc, r3)

MagLess(x, y) ==
    \/ x.hi < y.hi
    \/ x.hi = y.hi /\ x.mid < y.mid
    \/ x.hi = y.hi /\ x.mid = y.mid /\ x.lo < y.lo

\* x - y on magnitudes, for x >= y
MagSub(neg, x, y) ==
    LET l  == x.lo - y.lo
        bl == IF l < 0 THEN 1 ELSE 0
        m  == x.mid - y.mid - bl
        bmid == IF m < 0 THEN 1 ELSE 0
    IN  [neg |-> neg, hi |-> x.hi - y.hi - bmid,
         mid |-> m + bmid * Limb, lo |-> l + bl * Limb]

\* x + y on floats
FAdd(x, y) ==
    IF x.neg = y.neg
    THEN LET e == Carry(x.neg, x.hi + y.hi, x.mid + y.mid, x.lo + y.lo)
         IN  RoundNearestEven(e.neg, e.hi, e.mid, e.lo, 0)
    ELSE IF MagLess(x, y)
    THEN LET e == MagSub(y.neg, y, x) IN RoundNearestEven(e.neg, e.hi, e.mid, e.lo, 0)
    ELSE IF MagLess(y, x)
    THEN LET e == MagSub(x.neg, x, y) IN RoundNearestEven(e.neg, e.hi, e.mid, e.lo, 0)
    ELSE FZero

\* abs(x)
FAbs(x) == [x EXCEPT !.neg = FALSE]

\* v0.dot(v1.cross(v2)) on integer coordinates
dot(a, b) == a[1] * b[1] + a[2] * b[2] + a[3] * b[3]

cross(a, b) == <<a[2] * b[3] - a[3] * b[2],
                 a[3] * b[1] - a[1] * b[3],
                 a[1] * b[2] - a[2] * b[1]>>

\* The inner loop: `for i in range(1, len(face.verts) - 1)` adds the signed
\* volume of the tetrahedron (origin, v0, v_i, v_i+1) to volume.
RECURSIVE fan_volume(_, _, _)
fan_volume(face, i, vol) ==
    IF i > Len(face) - 2 THEN vol
    ELSE fan_volume(face, i + 1,
                    FAdd(vol, FDiv6(dot(face[1], cross(face[i + 1], face[i + 2])))))

\* The outer loop `for face in bm.faces`, skipping faces of fewer than 3
\* vertices.
RECURSIVE faces_volume(_, _)
faces_volume(faces, vol) ==
    IF faces = <<>> THEN vol
    ELSE faces_volume(Tail(faces),
                      IF Len(Head(faces)) < 3 THEN vol
                      ELSE fan_volume(Head(faces), 1, vol))

\* Mutant of calculate_mesh_volume: the result is not made absolute.
calculate_mesh_volume_signed(mesh) == faces_volume(mesh.faces, FZero)

\* SimulationAdapter._calculate_mesh_volume
calculate_mesh_volume(mesh) == FAbs(faces_volume(mesh.faces, FZero))

\* A face as the list of its vertices' coordinates, in the given or in the
\* reversed winding.
Face(verts, idx, flip) ==
    [i \in 1..Len(idx) |-> verts[idx[IF flip THEN Len(idx) + 1 - i ELSE i]]]

\* An axis-aligned box with corner o and edges w, h, d: closed, its six quads
\* wound outwards (inwards if flip).  volume6 is six times what it encloses.
Box(o, w, h, d, flip) ==
    LET v == << o, VAdd(o, <<w,0,0>>), VAdd(o, <<w,h,0>>), VAdd(o, <<0,h,0>>),
                VAdd(o, <<0,0,d>>), VAdd(o, <<w,0,d>>), VAdd(o, <<w,h,d>>),
                VAdd(o, <<0,h,d>>) >>
        f == << <<1,4,3,2>>, <<5,6,7,8>>, <<1,2,6,5>>,
                <<2,3,7,6>>, <<3,4,8,7>>, <<4,1,5,8>> >>
    IN  [kind |-> "box", flip |-> flip, volume6 |-> 6 * w * h * d,
         faces |-> [i \in 1..6 |-> Face(v, f[i], flip)]]

\* A tetrahedron with a right-angled corner at o and legs w, h, d.
Tetra(o, w, h, d, flip) ==
    LET v == << o, VAdd(o, <<w,0,0>>), VAdd(o, <<0,h,0>>), VAdd(o, <<0,0,d>>) >>
        f == << <<1,3,2>>, <<1,2,4>>, <<1,4,3>>, <<2,3,4>> >>
    IN  [kind |-> "tetra", flip |-> flip, volume6 |-> w * h * d,
         faces |-> [i \in 1..4 |-> Face(v, f[i], flip)]]

ClosedMeshes ==
    { Box(o, w, h, d, flip) :
        o \in Vec(-MaxOff..MaxOff), w \in 1..MaxSize, h \in 1..MaxSize,
        d \in 1..MaxSize, flip \in BOOLEAN }
    \cup
    { Tetra(o, w, h, d, flip) :
        o \in Vec(-MaxOff..MaxOff), w \in 1..MaxSize, h \in 1..MaxSize,
        d \in 1..MaxSize, flip \in BOOLEAN }

InitVolume ==
    /\ InitServer
    /\ InitEngine
    /\ objects = EmptyDict
    /\ ugf = EmptyDict
    /\ bm \in ClosedMeshes
    /\ volume = EmptyDict
    /\ moments = EmptyDict
    /\ jacobi = EmptyDict
    /\ principal_axes = EmptyDict

mesh_volume ==
    /\ volume = EmptyDict
    /\ volume' = calculate_mesh_volume(bm)
    /\ UNCHANGED <<objects, ugf, bm, moments, jacobi, principal_axes>>
    /\ adapter_unchanged

NextVolume == mesh_volume

SpecVolume == InitVolume /\ [][NextVolume]_vars

\* The sum of the signed tetrahedron volumes, times 6, in integer arithmetic
RECURSIVE FanSum6(_, _)
FanSum6(face, i) ==
    IF i > Len(face) - 2 THEN 0
    ELSE dot(face[1], cross(face[i + 1], face[i + 2])) + FanSum6(face, i + 1)

RECURSIVE ExactSum6(_)
ExactSum6(faces) ==
    IF faces = <<>> THEN 0 ELSE FanSum6(Head(faces), 1) + ExactSum6(Tail(faces))

\* The float x is the integer n
FIsInt(x, n) == x = [neg |-> FALSE, hi |-> n * 128, mid |-> 0, lo |-> 0]

\* |6x - n| in units of 2^-55, for a float x >= 0 and an integer n >= 0
Err6(x, n) ==
    LET x6 == Carry(FALSE, 6 * x.hi, 6 * x.mid, 6 * x.lo)
        e  == [neg |-> FALSE, hi |-> n * 128, mid |-> 0, lo |-> 0]
    IN  IF MagLess(x6, e) THEN MagSub(FALSE, e, x6) ELSE MagSub(FALSE, x6, e)

\* C14 as stated: for a closed, consistently wound mesh with integer
\* coordinates the function returns exactly the enclosed volume (w*h*d for a
\* box; for the tetrahedron the float nearest to w*h*d/6), never a negative
\* number.
C14_VolumeExact ==
    volume # EmptyDict =>
        /\ ~volume.neg
        /\ IF bm.kind = "box"
           THEN FIsInt(volume, bm.volume6 \div 6)
           ELSE volume = FDiv6(bm.volume6)

\* C14 amended: the sum of the signed tetrahedron volumes is, in exact
\* arithmetic, plus or minus the enclosed volume wherever the mesh lies and
\* whichever way it is wound; the float returned is never negative and
\* differs from the enclosed volume by at most 2^-40.
C14_VolumeUpToRounding ==
    volume # EmptyDict =>
        /\ ~volume.neg
        /\ ExactSum6(bm.faces) = (IF bm.flip THEN -bm.volume6 ELSE bm.volume6)
        /\ LET e == Err6(volume, bm.volume6)
           IN  e.hi = 0 /\ e.mid = 0 /\ e.lo <= 6 * Pow2(15)

\* C14 witness: the volume of an inward-wound box away from the origin was
\* computed, and rounding made it differ from w*h*d.
C14_Witness ==
    /\ volume # EmptyDict
    /\ bm.kind = "box"
    /\ bm.flip
    /\ ~FIsInt(volume, bm.volume6 \div 6)
    /\ \A i \in 1..Len(bm.faces) : \A j \in 1..Len(bm.faces[i]) :
           bm.faces[i][j] # <<0, 0, 0>>

-----------------------------------------------------------------------------
(* SimulationAdapter._calculate_principal_axes.  The arithmetic is exact: a  *)
(* number is (n/d) * sqrt(r) with r in {1, 2}, which covers the rotation by  *)
(* pi/4 (cos = sin = sqrt(2)/2) and the rotations whose double angle has     *)
(* tangent 24/7 (cos and sin are 4/5 and 3/5).  The tensors drawn have at    *)
(* most one non-zero product of inertia and fall under these two cases.      *)

MaxDiag == 1      \* moments of inertia are 16 + 7k for k in 0..MaxDiag

MaxProd == 1      \* a non-zero product of inertia is 12k or -12k for k in 1..MaxProd

max_iterations == 50

RECURSIVE GCD(_, _)
GCD(a, b) == IF b = 0 THEN a ELSE GCD(b, a % b)

\* (n/d) * sqrt(r), in lowest terms
Q(n, d, r) ==
    IF n = 0 THEN [n |-> 0, d |-> 1, r |-> 1]
    ELSE LET g == GCD(Abs(n), d) IN [n |-> n \div g, d |-> d \div g, r |-> r]

QInt(k) == Q(k, 1, 1)

QMul(x, y) ==
    Q(x.n * y.n * (IF x.r = 2 /\ y.r = 2 THEN 2 ELSE 1), x.d * y.d,
      IF x.r = y.r THEN 1 ELSE 2)

QNeg(x) == [x EXCEPT !.n = -x.n]

\* x + y; both are multiples of the same square root unless one is zero
QAdd(x, y) ==
    CASE x.n = 0 -> y
      [] y.n = 0 -> x
      [] x.r = y.r -> Q(x.n * y.d + y.n * x.d, x.d * y.d, x.r)

QSub(x, y) == QAdd(x, QNeg(y))

\* abs(x) > abs(y), by comparing the squares
QAbsGreater(x, y) ==
    x.n * x.n * x.r * y.d * y.d > y.n * y.n * y.r * x.d * x.d

\* cos and sin of theta, lines 302-308: pi/4 when the two diagonal elements
\* are equal, else half of atan2(2 I[p][q], I[p][p] - I[q][q]).
rotation(I, p, q) ==
    LET x == QSub(I[p][p], I[q][q])
        y == QMul(QInt(2), I[p][q])
    IN  CASE x.n = 0  -> [c |-> Q(1, 2, 2), s |-> Q(1, 2, 2)]
          [] x.n # 0 /\ y.n # 0 /\ 7 * Abs(y.n) * x.d = 24 * Abs(x.n) * y.d ->
                IF x.n > 0
                THEN [c |-> Q(4, 5, 1), s |-> Q(IF y.n > 0 THEN 3 ELSE -3, 5, 1)]
                ELSE [c |-> Q(3, 5, 1), s |-> Q(IF y.n > 0 THEN 4 ELSE -4, 5, 1)]

\* The tensors whose rotation angle the table above covers
Supported(m) ==
    LET d == m.Ixx - m.Iyy
        e == m.Ixx - m.Izz
        f == m.Iyy - m.Izz
        ok(y, x) == y = 0 \/ x = 0 \/ 7 * Abs(2 * y) = 24 * Abs(x)
    IN  ok(m.Ixy, d) /\ ok(m.Ixz, e) /\ ok(m.Iyz, f)

Moments ==
    LET D == { 16 + 7 * k : k \in 0..MaxDiag }
        P == { 12 * k : k \in 1..MaxProd } \cup { -12 * k : k \in 1..MaxProd }
        Z == {0}
    IN  { m \in [Ixx : D, Iyy : D, Izz : D,
                 Ixy : P \cup Z, Ixz : P \cup Z, Iyz : P \cup Z] :
            /\ Cardinality({ k \in {"Ixy", "Ixz", "Iyz"} : m[k] # 0 }) <= 1
            /\ Supported(m) }

\* Lines 274-281: the tensor I and V = identity
jacobi_start(m) ==
    [I |-> << <<QInt(m.Ixx), QInt(m.Ixy), QInt(m.Ixz)>>,
              <<QInt(m.Ixy), QInt(m.Iyy), QInt(m.Iyz)>>,
              <<QInt(m.Ixz), QInt(m.Iyz), QInt(m.Izz)>> >>,
     V |-> [i \in 1..3 |-> [j \in 1..3 |-> QInt(IF i = j THEN 1 ELSE 0)]],
     iterations |-> 0]

\* Lines 289-295: the first off-diagonal element of largest absolute value,
\* scanning (0,1), (0,2), (1,2); (0,1) if all are zero.
largest_off_diagonal(I) ==
    LET a == <<1, 2>>
        b == IF QAbsGreater(I[1][3], I[1][2]) THEN <<1, 3>> ELSE a
    IN  IF QAbsGreater(I[2][3], I[b[1]][b[2]]) THEN <<2, 3>> ELSE b

\* Line 298: max_val < tolerance.  The numbers at hand are rationals with
\* small denominators, below 1e-10 only when zero.
converged(I) ==
    LET pq == largest_off_diagonal(I) IN I[pq[1]][pq[2]].n = 0

\* Lines 301-332: one Jacobi rotation of I and of V
jacobi_rotate(I, V) ==
    LET pq == largest_off_diagonal(I)
        p  == pq[1]
        q  == pq[2]
        cs == rotation(I, p, q)
        c  == cs.c
        sn == cs.s
        cc == QMul(c, c)
        ss == QMul(sn, sn)
        sc2 == QMul(QInt(2), QMul(sn, c))
        Ipp == QSub(QAdd(QMul(cc, I[p][p]), QMul(ss, I[q][q])), QMul(sc2, I[p][q]))
        Iqq == QAdd(QAdd(QMul(ss, I[p][p]), QMul(cc, I[q][q])), QMul(sc2, I[p][q]))
        Ipi(i) == QSub(QMul(c, I[p][i]), QMul(sn, I[q][i]))
        Iqi(i) == QAdd(QMul(sn, I[p][i]), QMul(c, I[q][i]))
        I_new == [i \in 1..3 |-> [j \in 1..3 |->
                    CASE i = p /\ j = p -> Ipp
                      [] i = q /\ j = q -> Iqq
                      [] (i = p /\ j = q) \/ (i = q /\ j = p) -> QInt(0)
                      [] i = p /\ j \notin {p, q} -> Ipi(j)
                      [] j = p /\ i \notin {p, q} -> Ipi(i)
                      [] i = q /\ j \notin {p, q} -> Iqi(j)
                      [] j = q /\ i \notin {p, q} -> Iqi(i)
                      [] OTHER -> I[i][j]]]
        V_new == [i \in 1..3 |-> [j \in 1..3 |->
                    CASE j = p -> QSub(QMul(c, V[i][p]), QMul(sn, V[i][q]))
                      [] j = q -> QAdd(QMul(sn, V[i][p]), QMul(c, V[i][q]))
                      [] OTHER -> V[i][j]]]
    IN  [I |-> I_new, V |-> V_new]

\* Lines 335-343: pair the diagonal of I with the columns of V and sort by
\* decreasing absolute value (a stable sort: equal keys keep their order).
sorted_axes(I, V) ==
    LET col(j) == <<V[1][j], V[2][j], V[3][j]>>
        before(i, j) == \/ QAbsGreater(I[i][i], I[j][j])
                        \/ ~QAbsGreater(I[j][j], I[i][i]) /\ i < j
        rank(i) == 1 + Cardinality({ j \in 1..3 : j # i /\ before(j, i) })
    IN  [k \in 1..3 |-> col(CHOOSE i \in 1..3 : rank(i) = k)]

InitAxes ==
    /\ InitServer
    /\ InitEngine
    /\ objects = EmptyDict
    /\ ugf = EmptyDict
    /\ bm = EmptyDict
    /\ volume = EmptyDict
    /\ moments \in Moments
    /\ jacobi = jacobi_start(moments)
    /\ principal_axes = EmptyDict

\* One iteration of `for _ in range(max_iterations)` that does not break
jacobi_iteration ==
    /\ principal_axes = EmptyDict
    /\ jacobi.iterations < max_iterations
    /\ ~converged(jacobi.I)
    /\ LET r == jacobi_rotate(jacobi.I, jacobi.V)
       IN  jacobi' = [I |-> r.I, V |-> r.V, iterations |-> jacobi.iterations + 1]
    /\ UNCHANGED <<objects, ugf, bm, volume, moments, principal_axes>>
    /\ adapter_unchanged

\* The loop ends (break, or max_iterations reached) and the axes are returned
principal_axes_return ==
    /\ principal_axes = EmptyDict
    /\ converged(jacobi.I) \/ jacobi.iterations = max_iterations
    /\ principal_axes' = sorted_axes(jacobi.I, jacobi.V)
    /\ UNCHANGED <<objects, ugf, bm, volume, moments, jacobi>>
    /\ adapter_unchanged

NextAxes == jacobi_iteration \/ principal_axes_return

SpecAxes == InitAxes /\ [][NextAxes]_vars

QDot(a, b) == QAdd(QAdd(QMul(a[1], b[1]), QMul(a[2], b[2])), QMul(a[3], b[3]))

\* The inertia tensor of the argument, and its product with a vector
Tensor(m) == jacobi_start(m).I

TensorTimes(m, v) == [i \in 1..3 |-> QDot(Tensor(m)[i], v)]

\* The returned vectors are mutually orthogonal unit vectors
Orthonormal(axes) ==
    \A i, j \in 1..3 : QDot(axes[i], axes[j]) = QInt(IF i = j THEN 1 ELSE 0)

\* The eigenvalue a unit vector v would belong to: v . (A v)
Rayleigh(m, v) == QDot(v, TensorTimes(m, v))

\* v is an eigenvector of the tensor: A v = (v . A v) v
IsEigenvector(m, v) ==
    \A i \in 1..3 : TensorTimes(m, v)[i] = QMul(Rayleigh(m, v), v[i])

\* C15: _calculate_principal_axes returns three mutually orthogonal unit
\* vectors that are eigenvectors of the inertia tensor built from the
\* moments, ordered by decreasing absolute eigenvalue.
C15_PrincipalAxes ==
    principal_axes # EmptyDict =>
        /\ Orthonormal(principal_axes)
        /\ \A k \in 1..3 : IsEigenvector(moments, principal_axes[k])
        /\ \A k \in 1..2 :
              ~QAbsGreater(Rayleigh(moments, principal_axes[k + 1]),
                           Rayleigh(moments, principal_axes[k]))

====
